---- MODULE Spec2Model ----
(***************************************************************************)
(* Partner dashboard (dash.py): one run of the script over the contents of *)
(* Base.xlsx.  The run loads the sheet and derives the per-partner rates   *)
(* and the days without contact (load_data), reads the sidebar selections, *)
(* filters the table, and renders the sections in order: general metrics,  *)
(* partner ranking, acquisition channels, churn risk, ideal profile and    *)
(* the full table.  An uncaught exception ends the run where it is raised. *)
(*                                                                         *)
(* Numbers.  A float is the exact fraction <<n, d>> it was divided from:   *)
(* d > 0 is a finite value, <<n, 0>> with n > 0 is +inf and <<0, 0>> is    *)
(* NaN, which is what the float division of pandas yields for a zero       *)
(* denominator.  A nullable cell (NPS, days without contact) is the set of *)
(* its values: {} is NaN/NaT, {v} is the value v.                          *)
(***************************************************************************)
EXTENDS Integers, Sequences, FiniteSets, TLC

\* ------------------------------------------------------------------ bounds
\* Largest number of rows of Base.xlsx.
MaxRecords == 2

\* Largest number of rows of the sheets that vary all four churn clauses.
MaxFlagRows == 1
\* Largest number of optional columns a sheet lacks.
MaxAbsent == 1

\* ------------------------------------------------------- program constants
\* pd.to_datetime("today"), as a day number.
Today == 100
\* head(10) of the ranking.
TopN == 10
\* NPS below which a partner is at risk.
NpsMin == 30
\* Days without contact above which a partner is at risk.
DiasMax == 60
\* The literal 0.2 of the conversion clause.
TaxaMin == <<1, 5>>

\* Column names are shortened: "Canal" is "Canal de aquisição", "Status" is
\* "Status da parceria", "NPS" is "NPS da última interação", "Dias" is
\* "Dias sem contato", "TaxaConversao" is "Taxa Conversão", "TaxaQualificacao"
\* is "Taxa Qualificação".  The sheets considered carry no "Tipo de parceiro"
\* column (the script skips that filter when the column is absent).
\* The columns the script tests with `in df.columns` before using them.
OptionalCols == {"Cidade", "Canal", "Status", "NPS"}
\* The columns every sheet considered carries.
BaseCols == {"Nome", "Recebidas", "Fechadas", "Qualificadas", "Data"}
\* The sidebar's filters, in the order the script builds them.
FilterCols == <<"Cidade", "Canal", "Status">>
\* The columns the churn section requires.
RiskCols == {"Status", "NPS", "Dias", "TaxaConversao"}
\* The columns load_data adds.
DerivedCols == {"TaxaConversao", "TaxaQualificacao", "Dias"}

\* -------------------------------------------------------------- floats
NaN == <<0, 0>>
IsNaN(f) == f[1] = 0 /\ f[2] = 0
\* a / b on two integer columns: x/0 is inf, 0/0 is NaN, no exception.
Div(a, b) == <<a, b>>
\* Series.fillna(0): NaN becomes 0.0, every other value (inf included) stays.
FillNa0(f) == IF IsNaN(f) THEN <<0, 1>> ELSE f
\* IEEE comparisons: every comparison with NaN is false, inf is above all.
FLt(a, b) == a[1] * b[2] < b[1] * a[2]
FEq(a, b) == ~IsNaN(a) /\ ~IsNaN(b) /\ a[1] * b[2] = b[1] * a[2]
FAdd(a, b) ==
    IF a[2] = 0 \/ b[2] = 0
    THEN (IF IsNaN(a) \/ IsNaN(b) THEN NaN ELSE <<1, 0>>)
    ELSE <<a[1] * b[2] + b[1] * a[2], a[2] * b[2]>>

RECURSIVE FSum(_)
FSum(s) == IF s = <<>> THEN <<0, 1>> ELSE FAdd(Head(s), FSum(Tail(s)))
\* Series.mean(): the sum over the count; NaN over no rows.
FMean(s) ==
    LET t == FSum(s) IN
    IF t[2] = 0 THEN t
    ELSE <<t[1], t[2] * Len(s)>>

\* ------------------------------------------------------------ sequences
Range(s) == {s[i] : i \in DOMAIN s}
Perms(n) == {p \in [1..n -> 1..n] : \A i, j \in 1..n : p[i] = p[j] => i = j}
\* DataFrame.head(n).
HeadN(s, n) == IF Len(s) <= n THEN s ELSE SubSeq(s, 1, n)

\* ------------------------------------------------------------- the sheet
\* A row of Base.xlsx.  A column the sheet lacks holds "-" (NPS: {}) in every
\* row and is never read.  data.valida is FALSE for a cell pd.to_datetime
\* cannot parse; data.dia is {} for a blank cell.
Row(i, ci, ca, st, re, fe, qu, da, np) ==
    [nome |-> i, cidade |-> ci, canal |-> ca, status |-> st,
     recebidas |-> re, fechadas |-> fe, qualificadas |-> qu,
     data |-> da, nps |-> np]
Date(d) == [valida |-> TRUE, dia |-> {d}]
Blank == [valida |-> TRUE, dia |-> {}]
Garbled == [valida |-> FALSE, dia |-> {}]

\* The value of column c in row r.
Cell(r, c) ==
    CASE c = "Cidade" -> r.cidade
      [] c = "Canal" -> r.canal
      [] c = "Status" -> r.status

\* ------------------------------------------------------------- load_data
\* pd.to_datetime(df["Data de último contato"]) raises on the first cell it
\* cannot parse (errors="raise" is the default), for the whole column.
ToDatetimeRaises(rows) == \E i \in DOMAIN rows : ~rows[i].data.valida
\* (today - date).dt.days: NaT stays NaN.
DiasSemContato(da) == {Today - d : d \in da.dia}
\* One row after the pre-processing of load_data.
Derive(r) ==
    [nome |-> r.nome, cidade |-> r.cidade, canal |-> r.canal, status |-> r.status,
     recebidas |-> r.recebidas, fechadas |-> r.fechadas,
     qualificadas |-> r.qualificadas, nps |-> r.nps,
     taxaConversao |-> FillNa0(Div(r.fechadas, r.recebidas)),
     taxaQualificacao |-> FillNa0(Div(r.qualificadas, r.recebidas)),
     dias |-> DiasSemContato(r.data)]
\* What load_data returns: the derived frame, or the empty frame of the
\* except branch.
LoadData(rows) ==
    IF ToDatetimeRaises(rows) THEN <<>>
    ELSE [i \in DOMAIN rows |-> Derive(rows[i])]

\* ------------------------------------------------------------ the sidebar
\* df[col].unique(): the options (and the default) of a multiselect.
Unique(d, c) == {Cell(d[i], c) : i \in DOMAIN d}
\* Every `filtros` the sidebar can hand over: one entry per filter column
\* the frame has, holding any subset of that column's options.
Options(d, cols, c) == IF c \in cols THEN SUBSET Unique(d, c) ELSE {{}}
Selections(d, cols) ==
    LET present == {c \in Range(FilterCols) : c \in cols}
    IN  {[c \in present |-> CASE c = "Cidade" -> ci [] c = "Canal" -> ca [] c = "Status" -> st] :
            ci \in Options(d, cols, "Cidade"), ca \in Options(d, cols, "Canal"),
            st \in Options(d, cols, "Status")}

\* ------------------------------------------------------------ the filter
\* filtro[filtro[col].isin(valores)]
IsIn(f, c, valores) == SelectSeq(f, LAMBDA r : Cell(r, c) \in valores)
\* `if valores and col in filtro.columns`: an empty list is falsy.
Applies(valores, c, cols) == valores # {} /\ c \in cols
RECURSIVE FilterLoop(_, _, _, _)
\* The loop over filtros.items(), from the k-th filter on.
FilterLoop(f, sel, cols, k) ==
    IF k > Len(FilterCols) THEN f
    ELSE LET c == FilterCols[k]
         IN  FilterLoop(IF c \in DOMAIN sel /\ Applies(sel[c], c, cols)
                        THEN IsIn(f, c, sel[c]) ELSE f,
                        sel, cols, k + 1)
ApplyFilters(d, sel, cols) == FilterLoop(d, sel, cols, 1)

\* --------------------------------------------------------------- sorting
\* ascending=False on "Taxa Conversão".
ByTaxaDesc(a, b) == FLt(b.taxaConversao, a.taxaConversao)
\* ByMediaDesc with a seeded fault: the listing sorted with ascending=True.
ByMediaAsc(a, b) == FLt(a.media, b.media)
\* ascending=False on "Taxa Média de Conversão".
ByMediaDesc(a, b) == FLt(b.media, a.media)
\* ByDiasDesc with a seeded fault: na_position="first".
ByDiasDescNaFirst(a, b) ==
    \/ a.dias = {} /\ b.dias # {}
    \/ \E x \in a.dias, y \in b.dias : x > y
\* ascending=False on "Dias sem contato", na_position="last".
ByDiasDesc(a, b) ==
    \/ a.dias # {} /\ b.dias = {}
    \/ \E x \in a.dias, y \in b.dias : x > y
\* Whether the sort by column `by` must put row a ahead of row b.
Before(a, b, by) ==
    CASE by = "Taxa Conversão" -> ByTaxaDesc(a, b)
      [] by = "Taxa Média de Conversão" -> ByMediaDesc(a, b)
      [] by = "Dias sem contato" -> ByDiasDesc(a, b)
\* sort_values(by, ascending=False) with the default kind="quicksort", which
\* is not stable: every arrangement of s in which no row stands before a row
\* that must be ahead of it.  Rows with equal keys come in any order.
SortValues(s, by) ==
    {[i \in 1..Len(s) |-> s[p[i]]] :
        p \in {q \in Perms(Len(s)) :
                 \A i, j \in 1..Len(s) : i < j => ~Before(s[q[j]], s[q[i]], by)}}

\* ------------------------------------------------------- general metrics
TaxasConversao(f) == [i \in DOMAIN f |-> f[i].taxaConversao]
TaxasQualificacao(f) == [i \in DOMAIN f |-> f[i].taxaQualificacao]
\* Series.mean() of the NPS column skips the NaN cells.
NpsMean(f) ==
    LET have == SelectSeq(f, LAMBDA r : r.nps # {})
    IN  FMean([i \in DOMAIN have |-> <<CHOOSE v \in have[i].nps : TRUE, 1>>])
Metrics(f, cols) ==
    [total |-> Len(f),
     conversao |-> FMean(TaxasConversao(f)),
     qualificacao |-> FMean(TaxasQualificacao(f)),
     nps |-> IF "NPS" \in cols THEN {NpsMean(f)} ELSE {}]

\* ---------------------------------------------------------------- ranking
\* filtro.sort_values("Taxa Conversão", ascending=False).head(10)
TopParceiros(f) == {HeadN(t, TopN) : t \in SortValues(f, "Taxa Conversão")}

\* --------------------------------------------------------------- channels
SetToSeq(S) == CHOOSE s \in [1..Cardinality(S) -> S] : Range(s) = S
\* One row of groupby("Canal de aquisição").agg(mean, count).
GroupRow(f, c) ==
    LET g == SelectSeq(f, LAMBDA r : r.canal = c)
    IN  [canal |-> c, media |-> FMean(TaxasConversao(g)), quantidade |-> Len(g)]
GroupBy(f) ==
    LET keys == SetToSeq({f[i].canal : i \in DOMAIN f})
    IN  [k \in DOMAIN keys |-> GroupRow(f, keys[k])]
\* ....sort_values("Taxa Média de Conversão", ascending=False).reset_index()
CanalConv(f) == SortValues(GroupBy(f), "Taxa Média de Conversão")

\* ------------------------------------------------------------ churn risk
\* RiskColsPresent with a seeded fault: the NPS column left out of the list.
RiskColsPresentNoNps(cols) == \A c \in RiskCols \ {"NPS"} : c \in cols
\* `all(col in filtro.columns for col in [...])`
RiskColsPresent(cols) == \A c \in RiskCols : c \in cols
\* RiscoChurn with a seeded fault: the clauses joined with & instead of |.
RiscoChurnAll(r) ==
    /\ r.status = "Inativo"
    /\ \E v \in r.nps : v < NpsMin
    /\ \E d \in r.dias : d > DiasMax
    /\ FLt(r.taxaConversao, TaxaMin)
\* The four clauses; a comparison with NaN is False.
RiscoChurn(r) ==
    \/ r.status = "Inativo"
    \/ \E v \in r.nps : v < NpsMin
    \/ \E d \in r.dias : d > DiasMax
    \/ FLt(r.taxaConversao, TaxaMin)
\* filtro["Risco Churn"] = ...
WithRisco(f) == [i \in DOMAIN f |-> [risco |-> RiscoChurn(f[i])] @@ f[i]]
\* filtro[filtro["Risco Churn"]].sort_values("Dias sem contato", ascending=False)
Flagged(f) == SelectSeq(f, LAMBDA r : r.risco)
RiscoChurnFrame(f) == SortValues(Flagged(f), "Dias sem contato")
\* risco_churn[[...six columns...]].sort_values("Dias sem contato", ascending=False)
RiscoTable(rc) ==
    SortValues([i \in DOMAIN rc |->
                   [nome |-> rc[i].nome, cidade |-> rc[i].cidade, status |-> rc[i].status,
                    dias |-> rc[i].dias, nps |-> rc[i].nps,
                    taxaConversao |-> rc[i].taxaConversao]],
               "Dias sem contato")

\* ----------------------------------------------------------------- state
VARIABLES
    sheet,          \* the rows of Base.xlsx
    header,         \* the columns of Base.xlsx
    df,             \* what load_data returned
    columns,        \* df.columns
    filtros,        \* the sidebar's selections, by column
    filtro,         \* the filtered frame
    metricas,       \* the four general metrics, {} before they are shown
    top_parceiros,  \* the ranking
    canal_conv,     \* the channel listing
    melhor_canal,   \* {} while unassigned, else {canal_conv.iloc[0]}
    risco_churn,    \* the flagged rows
    total_risco,    \* {} or the count shown by the churn section
    tabela_risco,   \* the table the churn section shows under the count
    perfil_ideal,   \* {} or the ideal-profile table
    page,           \* what each section put on the page, in order
    pc              \* where the script is
vars == <<sheet, header, df, columns, filtros, filtro, metricas, top_parceiros,
          canal_conv, melhor_canal, risco_churn, total_risco, tabela_risco, perfil_ideal,
          page, pc>>

\* ---------------------------------------------------------------- inputs
Pool(Ci, Ca, St, Cnt, Da, Np) ==
    {Row(0, ci, ca, st, c[1], c[2], c[3], da, np) :
        ci \in Ci, ca \in Ca, st \in St, c \in Cnt, da \in Da, np \in Np}
\* The sheets of at most max rows drawn from P; the partner's name is
\* the row number.
Sheets(P, max) ==
    UNION {{[i \in 1..n |-> [s[i] EXCEPT !.nome = i]] : s \in [1..n -> P]} :
              n \in 0..max}
\* The headers: all columns, but for at most MaxAbsent optional ones.
Headers ==
    {BaseCols \cup (OptionalCols \ m) :
        m \in {x \in SUBSET OptionalCols : Cardinality(x) <= MaxAbsent}}
\* A row of a sheet with header h.
Under(r, h) ==
    [r EXCEPT !.cidade = IF "Cidade" \in h THEN @ ELSE "-",
              !.canal = IF "Canal" \in h THEN @ ELSE "-",
              !.status = IF "Status" \in h THEN @ ELSE "-",
              !.nps = IF "NPS" \in h THEN @ ELSE {}]
\* The state when the script starts on a sheet of at most max rows of P.
Start(P, max) ==
    /\ header \in Headers
    /\ \E s \in Sheets(P, max) : sheet = [i \in DOMAIN s |-> Under(s[i], header)]
    /\ df = <<>>
    /\ columns = {}
    /\ filtros = <<>>
    /\ filtro = <<>>
    /\ metricas = {}
    /\ top_parceiros = <<>>
    /\ canal_conv = <<>>
    /\ melhor_canal = {}
    /\ risco_churn = <<>>
    /\ total_risco = {}
    /\ tabela_risco = <<>>
    /\ perfil_ideal = {}
    /\ page = <<>>
    /\ pc = "load"

\* Sheets that differ in city, channel and status, with dates that parse and
\* dates that do not.
PoolCategorias ==
    Pool({"A", "B"}, {"X", "Y"}, {"Ativo", "Inativo"}, {<<10, 5, 5>>},
         {Date(99), Garbled}, {{90}})
\* The same with one channel.
PoolBase ==
    Pool({"A", "B"}, {"X"}, {"Ativo", "Inativo"}, {<<10, 5, 5>>},
         {Date(99), Garbled}, {{90}})
\* Sheets that differ in the three counters <<received, closed, qualified>>
\* and in the date cell.
PoolTaxas ==
    Pool({"A"}, {"X"}, {"Ativo"},
         {<<re, fe, qu>> : re \in {0, 5}, fe \in {0, 1}, qu \in {0, 2}},
         {Date(99), Blank, Garbled}, {{90}})
\* Rows for the four clauses of the churn rule, one by one and together.
PoolClausulas ==
    Pool({"A"}, {"X"}, {"Ativo", "Inativo"},
         {<<10, 1, 5>>, <<5, 1, 5>>, <<10, 9, 5>>, <<0, 1, 0>>},
         {Date(99), Date(39), Blank}, {{}, {10}, {90}})
\* Rows that differ in the days without contact, flagged and not.
PoolDias ==
    Pool({"A"}, {"X"}, {"Ativo"}, {<<10, 9, 5>>},
         {Date(99), Date(39), Date(10), Blank}, {{10}, {90}})
\* Rows that differ in channel and in conversion rate, ties included.
PoolRanking ==
    Pool({"A"}, {"X", "Y"}, {"Ativo"},
         {<<10, 5, 5>>, <<0, 0, 0>>, <<5, 1, 5>>, <<2, 1, 1>>},
         {Date(99)}, {{90}})

Init == Start(PoolCategorias, MaxRecords)
InitTaxas == Start(PoolBase, MaxRecords) \/ Start(PoolTaxas, MaxRecords)
InitClausulas == Start(PoolBase, MaxRecords) \/ Start(PoolClausulas, MaxFlagRows)
InitRisco == Start(PoolBase, MaxRecords) \/ Start(PoolDias, MaxRecords)
InitRanking == Start(PoolBase, MaxRecords) \/ Start(PoolRanking, MaxRecords)

\* ---------------------------------------------------------------- actions
\* df = load_data(), the try branch.
LoadOk ==
    /\ pc = "load"
    /\ ~ToDatetimeRaises(sheet)
    /\ df' = LoadData(sheet)
    /\ columns' = header \cup DerivedCols
    /\ pc' = "check"
    /\ UNCHANGED <<sheet, header, filtros, filtro, metricas, top_parceiros, canal_conv,
                   melhor_canal, risco_churn, total_risco, tabela_risco, perfil_ideal, page>>
\* df = load_data(), the except branch: st.error and an empty frame.
LoadError ==
    /\ pc = "load"
    /\ ToDatetimeRaises(sheet)
    /\ df' = LoadData(sheet)
    /\ columns' = {}
    /\ page' = Append(page, "erro_carregar")
    /\ pc' = "check"
    /\ UNCHANGED <<sheet, header, filtros, filtro, metricas, top_parceiros, canal_conv,
                   melhor_canal, risco_churn, total_risco, tabela_risco, perfil_ideal>>
\* if df.empty: st.stop()
Stop ==
    /\ pc = "check"
    /\ df = <<>>
    /\ pc' = "stopped"
    /\ UNCHANGED <<sheet, header, df, columns, filtros, filtro, metricas, top_parceiros,
                   canal_conv, melhor_canal, risco_churn, total_risco, tabela_risco, perfil_ideal, page>>
\* The sidebar's multiselects.
Sidebar ==
    /\ pc = "check"
    /\ df # <<>>
    /\ filtros' \in Selections(df, columns)
    /\ pc' = "filter"
    /\ UNCHANGED <<sheet, header, df, columns, filtro, metricas, top_parceiros, canal_conv,
                   melhor_canal, risco_churn, total_risco, tabela_risco, perfil_ideal, page>>
\* filtro = df.copy() and the loop over filtros.
Filter ==
    /\ pc = "filter"
    /\ filtro' = ApplyFilters(df, filtros, columns)
    /\ pc' = "metrics"
    /\ UNCHANGED <<sheet, header, df, columns, filtros, metricas, top_parceiros, canal_conv,
                   melhor_canal, risco_churn, total_risco, tabela_risco, perfil_ideal, page>>
\* The four st.metric calls.
GeneralMetrics ==
    /\ pc = "metrics"
    /\ metricas' = {Metrics(filtro, columns)}
    /\ page' = Append(page, "metricas")
    /\ pc' = "ranking"
    /\ UNCHANGED <<sheet, header, df, columns, filtros, filtro, top_parceiros, canal_conv,
                   melhor_canal, risco_churn, total_risco, tabela_risco, perfil_ideal>>
\* Section 1: the ranking chart.
Ranking ==
    /\ pc = "ranking"
    /\ top_parceiros' \in TopParceiros(filtro)
    /\ page' = Append(page, "ranking")
    /\ pc' = "channel"
    /\ UNCHANGED <<sheet, header, df, columns, filtros, filtro, metricas, canal_conv,
                   melhor_canal, risco_churn, total_risco, tabela_risco, perfil_ideal>>
\* Section 2 with the channel column and at least one group.
ChannelSection ==
    /\ pc = "channel"
    /\ "Canal" \in columns
    /\ canal_conv' \in CanalConv(filtro)
    /\ canal_conv' # <<>>
    /\ melhor_canal' = {canal_conv'[1]}
    /\ page' = Append(page, "canal")
    /\ pc' = "risk"
    /\ UNCHANGED <<sheet, header, df, columns, filtros, filtro, metricas, top_parceiros,
                   risco_churn, total_risco, tabela_risco, perfil_ideal>>
\* Section 2 with the channel column and no group: canal_conv.iloc[0] raises
\* IndexError, which nothing catches.
ChannelIndexError ==
    /\ pc = "channel"
    /\ "Canal" \in columns
    /\ canal_conv' \in CanalConv(filtro)
    /\ canal_conv' = <<>>
    /\ page' = Append(page, "IndexError")
    /\ pc' = "failed"
    /\ UNCHANGED <<sheet, header, df, columns, filtros, filtro, metricas, top_parceiros,
                   melhor_canal, risco_churn, total_risco, tabela_risco, perfil_ideal>>
\* Section 2 without the channel column: st.warning.
ChannelUnavailable ==
    /\ pc = "channel"
    /\ "Canal" \notin columns
    /\ page' = Append(page, "canal_indisponivel")
    /\ pc' = "risk"
    /\ UNCHANGED <<sheet, header, df, columns, filtros, filtro, metricas, top_parceiros,
                   canal_conv, melhor_canal, risco_churn, total_risco, tabela_risco, perfil_ideal>>
\* Section 3 with the four columns: the flag, the flagged frame and, when it
\* is not empty, the chart, the count and the table.  The table selects
\* "Cidade", which raises KeyError on a frame without that column.
RiskSection ==
    /\ pc = "risk"
    /\ RiskColsPresent(columns)
    /\ filtro' = WithRisco(filtro)
    /\ risco_churn' \in RiscoChurnFrame(filtro')
    /\ risco_churn' # <<>>
    /\ total_risco' = {Len(risco_churn')}
    /\ "Cidade" \in columns
    /\ tabela_risco' \in RiscoTable(risco_churn')
    /\ page' = Append(page, "risco")
    /\ pc' = "profile"
    /\ UNCHANGED <<sheet, header, df, columns, filtros, metricas, top_parceiros, canal_conv,
                   melhor_canal, perfil_ideal>>
RiskKeyError ==
    /\ pc = "risk"
    /\ RiskColsPresent(columns)
    /\ filtro' = WithRisco(filtro)
    /\ risco_churn' \in RiscoChurnFrame(filtro')
    /\ risco_churn' # <<>>
    /\ total_risco' = {Len(risco_churn')}
    /\ "Cidade" \notin columns
    /\ page' = Append(page, "KeyError")
    /\ pc' = "failed"
    /\ UNCHANGED <<sheet, header, df, columns, filtros, metricas, top_parceiros, canal_conv,
                   melhor_canal, tabela_risco, perfil_ideal>>
\* Section 3 with the four columns and no flagged row: st.success.
RiskNone ==
    /\ pc = "risk"
    /\ RiskColsPresent(columns)
    /\ filtro' = WithRisco(filtro)
    /\ risco_churn' \in RiscoChurnFrame(filtro')
    /\ risco_churn' = <<>>
    /\ page' = Append(page, "sem_risco")
    /\ pc' = "profile"
    /\ UNCHANGED <<sheet, header, df, columns, filtros, metricas, top_parceiros, canal_conv,
                   melhor_canal, total_risco, tabela_risco, perfil_ideal>>
\* Section 3 without one of the four columns: st.error.
RiskIncomplete ==
    /\ pc = "risk"
    /\ ~RiskColsPresent(columns)
    /\ page' = Append(page, "risco_incompleto")
    /\ pc' = "profile"
    /\ UNCHANGED <<sheet, header, df, columns, filtros, filtro, metricas, top_parceiros,
                   canal_conv, melhor_canal, risco_churn, total_risco, tabela_risco, perfil_ideal>>
\* perfil_ideal: the channel entry and the NPS entry ("N/D" without the
\* column); the two quantile figures are not kept.
PerfilIdeal(f, cols, melhor) ==
    [canal |-> IF "Canal" \in cols THEN (CHOOSE m \in melhor : TRUE).canal ELSE "N/D",
     nps |-> IF "NPS" \in cols THEN "quantil" ELSE "N/D"]
\* Section 4 on a frame with rows.
ProfileSection ==
    /\ pc = "profile"
    /\ filtro # <<>>
    /\ perfil_ideal' = {PerfilIdeal(filtro, columns, melhor_canal)}
    /\ page' = Append(page, "perfil")
    /\ pc' = "table"
    /\ UNCHANGED <<sheet, header, df, columns, filtros, filtro, metricas, top_parceiros,
                   canal_conv, melhor_canal, risco_churn, total_risco, tabela_risco>>
\* Section 4 on a frame without rows: st.warning.
ProfileInsufficient ==
    /\ pc = "profile"
    /\ filtro = <<>>
    /\ page' = Append(page, "perfil_insuficiente")
    /\ pc' = "table"
    /\ UNCHANGED <<sheet, header, df, columns, filtros, filtro, metricas, top_parceiros,
                   canal_conv, melhor_canal, risco_churn, total_risco, tabela_risco, perfil_ideal>>
\* The expander with the whole filtered frame.
FullTable ==
    /\ pc = "table"
    /\ page' = Append(page, "tabela")
    /\ pc' = "done"
    /\ UNCHANGED <<sheet, header, df, columns, filtros, filtro, metricas, top_parceiros,
                   canal_conv, melhor_canal, risco_churn, total_risco, tabela_risco, perfil_ideal>>

Next ==
    \/ LoadOk \/ LoadError \/ Stop \/ Sidebar \/ Filter \/ GeneralMetrics \/ Ranking
    \/ ChannelSection \/ ChannelIndexError \/ ChannelUnavailable
    \/ RiskSection \/ RiskKeyError \/ RiskNone \/ RiskIncomplete
    \/ ProfileSection \/ ProfileInsufficient \/ FullTable
Spec == Init /\ [][Next]_vars
SpecTaxas == InitTaxas /\ [][Next]_vars
SpecClausulas == InitClausulas /\ [][Next]_vars
SpecRisco == InitRisco /\ [][Next]_vars
SpecRanking == InitRanking /\ [][Next]_vars

\* ------------------------------------------------------------ properties
Shown(x) == x \in Range(page)
Loaded == pc # "load"
Filtered == pc \notin {"load", "check", "filter", "stopped"}
Zero == <<0, 1>>
RECURSIVE SelectIdx(_, _, _)
\* The subsequence of s at the indices in keep, in the order of s.
SelectIdx(s, keep, i) ==
    IF i > Len(s) THEN <<>>
    ELSE (IF i \in keep THEN <<s[i]>> ELSE <<>>) \o SelectIdx(s, keep, i + 1)

\* C1: after load_data, every row with 0 referrals received has
\* conversion rate 0 and qualification rate 0, whatever its closed and
\* qualified counts are.
C1_ZeroReceivedGivesZeroRates ==
    \A i \in DOMAIN df :
        df[i].recebidas = 0 =>
            FEq(df[i].taxaConversao, Zero) /\ FEq(df[i].taxaQualificacao, Zero)

\* C2: a filter column whose accepted-value set is empty yields an empty
\* filtered frame (it is not treated like a column without a constraint).
C2_EmptySelectionShowsNothing ==
    Filtered => \A c \in DOMAIN filtros : filtros[c] = {} => filtro = <<>>

\* C3: a date cell that cannot be parsed leaves only that row's days without
\* contact undefined; the load still returns every row of the sheet with its
\* derived fields.
C3_BadDateIsPerRecord ==
    Loaded =>
        /\ Len(df) = Len(sheet)
        /\ \A i \in DOMAIN df :
              df[i].dias = IF sheet[i].data.valida THEN DiasSemContato(sheet[i].data) ELSE {}

\* C4: a run whose filtered frame is empty is never ended by an exception:
\* every section after the filter reports or renders.
C4_EmptyFilterNeverFails ==
    (Filtered /\ filtro = <<>>) =>
        /\ pc # "failed"
        /\ pc = "done" =>
              /\ Shown("metricas") /\ Shown("ranking") /\ Shown("tabela")
              /\ Shown("perfil_insuficiente")
              /\ Shown("sem_risco") \/ Shown("risco_incompleto")

\* C5: a row is flagged exactly when its status is "Inativo", or its NPS is
\* present and below 30, or its days without contact are defined and above
\* 60, or its conversion rate is below 0.2; a missing NPS and undefined days
\* trigger nothing.
C5_FlaggedIffSomeClause ==
    \A i \in DOMAIN filtro :
        "risco" \in DOMAIN filtro[i] =>
            LET r == filtro[i]
                inativo == r.status = "Inativo"
                npsBaixo == r.nps # {} /\ \A v \in r.nps : v < 30
                semContato == r.dias # {} /\ \A d \in r.dias : d > 60
                taxaBaixa == 5 * r.taxaConversao[1] < r.taxaConversao[2]
            IN  r.risco <=> (inativo \/ npsBaixo \/ semContato \/ taxaBaixa)
\* An inactive partner with conversion 0.9, NPS 90 and 1 day without contact
\* has been flagged.
C5_Witness ==
    \E i \in DOMAIN filtro :
        /\ "risco" \in DOMAIN filtro[i]
        /\ filtro[i].risco
        /\ filtro[i].status = "Inativo"
        /\ filtro[i].nps = {90}
        /\ filtro[i].dias = {1}
        /\ filtro[i].taxaConversao = <<9, 10>>

\* C6: the filtered frame is exactly the rows of df, in the order of df,
\* whose value in every column of the FilterSpec is in that column's
\* accepted set.
C6_FilterIsConjunctiveSubsequence ==
    pc = "metrics" =>
        filtro = SelectSeq(df, LAMBDA r : \A c \in DOMAIN filtros : Cell(r, c) \in filtros[c])

\* C7: when one of the four required columns is missing, the churn section
\* reports incomplete data, adds no flag to the frame and produces no flagged
\* rows or count; the run is not ended there and the other sections are on
\* the page when it is done.
RiskReached == pc \in {"profile", "table", "done"} \/ Shown("KeyError")
C7_RefusesWithoutRequiredColumn ==
    /\ (RiskReached /\ ~(RiskCols \subseteq columns)) =>
          /\ Shown("risco_incompleto")
          /\ ~Shown("risco") /\ ~Shown("sem_risco")
          /\ \A i \in DOMAIN filtro : "risco" \notin DOMAIN filtro[i]
          /\ risco_churn = <<>>
          /\ total_risco = {}
    /\ Shown("risco_incompleto") =>
          /\ ~(RiskCols \subseteq columns)
          /\ pc # "failed"
          /\ pc = "done" =>
                /\ Shown("metricas") /\ Shown("ranking") /\ Shown("tabela")
                /\ Shown("canal") \/ Shown("canal_indisponivel")
                /\ Shown("perfil") \/ Shown("perfil_insuficiente")
\* A finished run that refused although no row of the frame meets a clause.
C7_Witness ==
    /\ pc = "done"
    /\ Shown("risco_incompleto")
    /\ filtro # <<>>
    /\ \A i \in DOMAIN filtro :
          /\ filtro[i].status # "Inativo"
          /\ \A v \in filtro[i].nps : v >= 30
          /\ \A d \in filtro[i].dias : d <= 60
          /\ 5 * filtro[i].taxaConversao[1] >= filtro[i].taxaConversao[2]

\* C8: the ranking is the first TopN rows of a stable descending sort of the
\* filtered frame by conversion rate: it has min(TopN, |filtro|) rows, no row
\* stands before a row with a higher rate, and rows with the same rate keep
\* the order they have in the frame (the row number, which is the name).
C8_RankingIsStableTopN ==
    Shown("ranking") =>
        /\ Len(top_parceiros) = IF Len(filtro) <= TopN THEN Len(filtro) ELSE TopN
        /\ \A i, j \in DOMAIN top_parceiros :
              i < j =>
                /\ ~FLt(top_parceiros[i].taxaConversao, top_parceiros[j].taxaConversao)
                /\ FEq(top_parceiros[i].taxaConversao, top_parceiros[j].taxaConversao)
                      => top_parceiros[i].nome < top_parceiros[j].nome

\* C9: the channel listing has one row per channel of the filtered frame,
\* with that channel's mean conversion rate and member count, in descending
\* order of the mean; the best channel is its first row, and the channel of
\* the ideal profile is the channel of that first row.
C9_BestChannelIsTopOfListing ==
    /\ Shown("canal") =>
          /\ {canal_conv[k].canal : k \in DOMAIN canal_conv}
                = {filtro[i].canal : i \in DOMAIN filtro}
          /\ \A k \in DOMAIN canal_conv :
                LET membros == {i \in DOMAIN filtro : filtro[i].canal = canal_conv[k].canal}
                IN  /\ canal_conv[k].quantidade = Cardinality(membros)
                    /\ \A j \in DOMAIN canal_conv : j # k => canal_conv[j].canal # canal_conv[k].canal
                    /\ FEq(canal_conv[k].media,
                           FMean(TaxasConversao(SelectIdx(filtro, membros, 1))))
          /\ \A j, k \in DOMAIN canal_conv :
                j < k => ~FLt(canal_conv[j].media, canal_conv[k].media)
          /\ melhor_canal = {canal_conv[1]}
    /\ (Shown("perfil") /\ "Canal" \in columns) =>
          /\ Shown("canal")
          /\ \A q \in perfil_ideal : q.canal = canal_conv[1].canal
          /\ perfil_ideal # {}
\* A profile shown over two channels whose means differ.
C9_Witness ==
    /\ Shown("perfil")
    /\ Len(canal_conv) = 2
    /\ FLt(canal_conv[2].media, canal_conv[1].media)
    /\ canal_conv[1].quantidade + canal_conv[2].quantidade = 2

\* C10: once the churn section has run, the flagged rows are exactly the
\* rows of the frame whose flag is true, none twice, in descending order of
\* days without contact with the undefined ones after all the defined ones,
\* and the count shown is their number.
RiskRan == Shown("risco") \/ Shown("sem_risco") \/ Shown("KeyError")
DiasDescNaLast(t) ==
    \A i, j \in DOMAIN t :
        i < j =>
            /\ t[i].dias = {} => t[j].dias = {}
            /\ \A x \in t[i].dias, y \in t[j].dias : x >= y
C10_FlaggedSortedAndCounted ==
    RiskRan =>
        LET flagged == {k \in DOMAIN filtro : filtro[k].risco} IN
        /\ Range(risco_churn) = {filtro[k] : k \in flagged}
        /\ Len(risco_churn) = Cardinality(flagged)
        /\ DiasDescNaLast(risco_churn)
        /\ risco_churn # <<>> => total_risco = {Cardinality(flagged)}
        /\ risco_churn = <<>> => total_risco = {} /\ Shown("sem_risco")
        /\ Shown("risco") =>
              /\ Len(tabela_risco) = Cardinality(flagged)
              /\ {tabela_risco[i].nome : i \in DOMAIN tabela_risco}
                    = {filtro[k].nome : k \in flagged}
              /\ DiasDescNaLast(tabela_risco)
\* Two flagged rows, the one with defined days moved ahead of the one with
\* undefined days that precedes it in the frame, and both in the table.
C10_Witness ==
    /\ Shown("risco")
    /\ Len(risco_churn) = 2
    /\ risco_churn[1].dias # {}
    /\ risco_churn[2].dias = {}
    /\ risco_churn[1].nome > risco_churn[2].nome
    /\ Len(tabela_risco) = 2
    /\ tabela_risco[2].dias = {}
    /\ total_risco = {2}
====
